---- MODULE Spec2Model ----
(***************************************************************************)
(* Model of deploy/lambda_functions/api_dispense/dispense.py: the Lambda   *)
(* that issues a "dispense" request for a dispenser (process_api_event)    *)
(* and reconciles the outcome the dispenser reports through its shadow     *)
(* (process_iot_event).  One dispenser is modelled; its record lives in    *)
(* the DynamoDB dispenser table and is read and overwritten wholesale.     *)
(* Money is counted in cents: 100 is $1.00.  Time is counted in seconds.   *)
(***************************************************************************)
EXTENDS Integers, Sequences, FiniteSets, TLC

\* ------------------------------------------------------------------ bounds
NumIds == 2            \* values get_request_id can return
TickSeconds == 5       \* the clock advances in steps of this many seconds
MaxTime == 10          \* the clock stops advancing here
MaxCredits == 2        \* largest initial balance, in dollars
MaxCounted == 3        \* SpecCalls counts the invocations begun up to here
MaxAmount == 900       \* SpecRing: largest amount given to set_led_ring, in cents
MaxLen == 3            \* SpecRegistry: longest request list to start from

\* --------------------------------------------------------- program constants
StaleWindow == 5       \* seconds after which a request is stale
DispenseCost == 100    \* Decimal(1.00), in cents
MinCredits == 100      \* 1.00, in cents
RingSize == 8          \* LEDs on the ring

\* Lambda invocations that can be in progress at once: two slots
Procs == {"a", "b"}
RequestIds == 1..NumIds
Results == {"success", "failure", "other"}

VARIABLES
    store,      \* the dispenser's item in dispenser_table
    now,        \* time.time()
    inv,        \* inv[p]: the invocation running in slot p, its locals and
                \* the calls it has made to the table, the shadow, the
                \* events topic and the event table
    ledger      \* history; Spec keeps none.  SpecDebits: the credits the
                \* behaviour started from and how many debits reached the
                \* table.  SpecLedger: the credits the
                \* behaviour started from and the request ids for which a
                \* success outcome has been delivered.  SpecCalls: how many
                \* invocations have begun, and whether one began while
                \* another was between its read and its write

vars == <<store, now, inv, ledger>>

\* ------------------------------------------------------------------ records
\* query() found no item for the dispenser: read_dispenser returns the
\* http_response dict, which has neither "credits" nor "requests".
NoRecord == [exists |-> FALSE, credits |-> 0, requests |-> <<>>]

Record(c, rs) == [exists |-> TRUE, credits |-> c, requests |-> rs]

\* A stored request is the string "requestId|command|timestamp|target";
\* it is modelled by the tuple of its "|"-separated fields.
FormatRequest(id, command, ts, target) == <<id, command, ts, target>>

\* The event of an invocation through the IoT rule.
\*   response: "absent" (no state.reported.response), "null", or "present"
\*   top: whether the event has a top-level "requestId" key
NoEvent == [response |-> "none", requestId |-> 0, result |-> "other", top |-> FALSE]

IotEvents ==
    {[NoEvent EXCEPT !.response = "absent"], [NoEvent EXCEPT !.response = "null"]}
    \cup [response : {"present"}, requestId : RequestIds, result : Results,
          top : BOOLEAN]

ApiParams == {"ok", "missing", "mismatch"}

\* ------------------------------------------------------------ pure functions
\* rounding to the nearest instead of truncating
Trunc_Nearest(n, d) == (2 * n + d) \div (2 * d)

\* int(x): truncation toward zero of n/d
Trunc(n, d) == IF n >= 0 THEN n \div d ELSE -((-n) \div d)

set_led_ring(amount) ==
    IF amount = 0 THEN [count |-> RingSize, color |-> "#FF0000"]
    ELSE IF amount < 100 THEN [count |-> Trunc(amount, 25) * 2, color |-> "#F0F0F0"]
    ELSE LET count == IF amount < RingSize * 100 THEN Trunc(amount, 100) ELSE RingSize
         IN  [count |-> count,
              color |-> IF count < 4
                        THEN <<"#006600", "#009900", "#00E600", "#00FF00">>[count]
                        ELSE "#00FF00"]

RECURSIVE FirstFor(_, _, _)
FirstFor(requests, command, i) ==
    IF i > Len(requests) THEN 0
    ELSE IF requests[i][2] = command THEN i
    ELSE FirstFor(requests, command, i + 1)

\* the command looked for in the wrong field of the entry: never found
request_details_WrongField(requests, command) ==
    [found |-> FALSE, requestId |-> 0, timestamp |-> 0]

\* None is modelled by found = FALSE
request_details(requests, command) ==
    LET i == FirstFor(requests, command, 1)
    IN  IF i = 0 THEN [found |-> FALSE, requestId |-> 0, timestamp |-> 0]
        ELSE [found |-> TRUE, requestId |-> requests[i][1], timestamp |-> requests[i][3]]

\* nothing is removed
remove_request_Keeps(record, command) == record

\* the test turned around: the entries of the command are the ones kept
Without_Kept(requests, command) == SelectSeq(requests, LAMBDA r : r[2] = command)

\* only an entry at the front is dropped
Without_Head(requests, command) ==
    IF requests # <<>> /\ Head(requests)[2] = command THEN Tail(requests) ELSE requests

RECURSIVE Without(_, _)
Without(requests, command) ==
    IF requests = <<>> THEN <<>>
    ELSE IF Head(requests)[2] # command
         THEN <<Head(requests)>> \o Without(Tail(requests), command)
         ELSE Without(Tail(requests), command)

remove_request(record, command) ==
    [record EXCEPT !.requests = Without(record.requests, command)]

\* ------------------------------------------------------------------- state
\* The payload of update_thing_shadow.  kind: what it sets in the desired
\* state ("request", "led_ring", or "clear" for request = null); response:
\* "null" when it also sets reported.response to null.
NoSignal == [kind |-> "none", requestId |-> 0, count |-> 0, color |-> "",
             response |-> "untouched"]

\* The locals of an invocation and the calls it has made.
\*   ev: the IoT event (still known after the return when it was dropped)
\*   loaded: the credits as read
\*   out: the record handed to put_item
\*   calls: the calls made so far to the tables ("query", "put",
\*     "put_failed", "log"), the shadow and the events topic, in order
\*   sent: the payload of update_thing_shadow; logged: the log_event message
IdleInv == [pc |-> "idle", kind |-> "none", ev |-> NoEvent, loaded |-> 0,
            out |-> NoRecord, branch |-> "none", reqId |-> 0,
            resp |-> "none", calls |-> <<>>, sent |-> NoSignal, logged |-> "none"]

InitCredits == {50} \cup {100 * k : k \in 1..MaxCredits}

NoLedger == [initial |-> 0, successIds |-> {}]

\* The dispenser has no record, or an idle one.
InitProgram ==
    /\ store \in {NoRecord} \cup {Record(c, <<>>) : c \in InitCredits}
    /\ now = 0
    /\ inv = [p \in Procs |-> IdleInv]

Init == InitProgram /\ ledger = NoLedger

InitLedger == InitProgram /\ ledger = [initial |-> store.credits, successIds |-> {}]

InitCalls == InitProgram /\ ledger = [begun |-> 0, overlapped |-> FALSE]

InitDebits == InitProgram /\ ledger = [initial |-> store.credits, debits |-> 0]

Tick ==
    /\ now + TickSeconds <= MaxTime
    /\ now' = now + TickSeconds
    /\ UNCHANGED <<store, inv, ledger>>

\* table.query(...): the item, or the http_response dict when Count is 0
read_dispenser == store

\* a conditional write: a record with more credits than stored is refused
write_dispenser_record_Guarded(record, ok) ==
    IF ok /\ (~store.exists \/ record.credits <= store.credits) THEN record ELSE store

\* dispenser_table.put_item(Item=record); ok = FALSE is a ClientError, which
\* write_dispenser_record logs and swallows, leaving the stored item as it was.
write_dispenser_record(record, ok) == IF ok THEN record ELSE store

PutCall(ok) == IF ok THEN "put" ELSE "put_failed"

Set(p, new) == inv' = [inv EXCEPT ![p] = new]

\* return: the locals are gone; what stays is what the invocation answered
\* and the calls it made
Returned(i) ==
    [i EXCEPT !.pc = "done", !.ev = NoEvent, !.loaded = 0, !.out = NoRecord,
              !.reqId = 0]

\* ------------------------------------------------- process_api_event (initiate)
\* nothing is appended
WithRequest_Dropped(record, id, ts) == record

\* lines 215-218: the record with a new request appended
WithRequest(record, id, ts) ==
    [record EXCEPT !.requests = Append(@, FormatRequest(id, "dispense", ts, "dispenser"))]

\* half a credit is enough
Short_BelowHalf(credits) == 2 * credits < MinCredits

\* only an empty balance is short
Short_OnlyEmpty(credits) == credits <= 0

\* line 177: not enough to dispense
Short(credits) == credits < MinCredits

\* the age test turned around
Current_Flipped(dr, t) == t - dr.timestamp > StaleWindow

\* line 196: the stored request is still current
Current(dr, t) == t - dr.timestamp < StaleWindow

\* lines 177-218: the credit precondition, the in-progress guard and the new
\* request, for the record as read, the id drawn and the time t
Initiate(i, rec, id, t) ==
    LET dr == request_details(rec.requests, "dispense")
    IN  IF ~rec.exists
        THEN \* KeyError on ["credits"], caught at line 258; http_response
             \* (lines 35-40) is given the exception as body and answers 500
             \* "ERROR, invalid type of <class 'KeyError'> for body of return"
             Returned([i EXCEPT !.resp = "invalidtype500", !.branch = "norecord"])
        ELSE IF Short(rec.credits)
        THEN Returned([i EXCEPT !.resp = "declined", !.branch = "declined",
                                !.calls = Append(@, "log"), !.logged = "declined"])
        ELSE IF dr.found /\ Current(dr, t)
        THEN Returned([i EXCEPT !.resp = "inprogress", !.branch = "inprogress",
                                !.calls = Append(@, "log"), !.logged = "inprogress"])
        ELSE [i EXCEPT !.pc = "write",
                       !.branch = IF dr.found THEN "stale" ELSE "new",
                       !.reqId = id,
                       !.loaded = rec.credits,
                       !.out = WithRequest(IF dr.found
                                           THEN remove_request(rec, "dispense")
                                           ELSE rec, id, t)]

\* lines 168-218, 248-257: the dispenserId parameter must be present and
\* equal to the caller's dispenser; then the record is read and checked.
\* get_request_id() is random: any id, also one issued before.
Request(p, params) ==
    /\ inv[p].pc = "idle"
    /\ IF params = "ok"
       THEN \E id \in RequestIds :
                Set(p, Initiate([inv[p] EXCEPT !.kind = "api", !.calls = <<"query">>],
                                read_dispenser, id, now))
       ELSE Set(p, Returned([inv[p] EXCEPT !.kind = "api", !.resp = "error500",
                                           !.branch = "badparams"]))
    /\ UNCHANGED <<store, now>>

ApiStart(p, params) == Request(p, params) /\ UNCHANGED ledger

\* one more invocation begins
Counted ==
    [begun |-> IF ledger.begun < MaxCounted THEN ledger.begun + 1 ELSE MaxCounted,
     overlapped |-> ledger.overlapped \/ \E q \in Procs : inv[q].pc = "write"]

ApiStartCounted(p, params) == Request(p, params) /\ ledger' = Counted

\* lines 219-247: the record is written, the command goes to the dispenser's
\* shadow, the issuance to the event table, the acknowledgment to the caller
ApiWrite(p) ==
    /\ inv[p].kind = "api" /\ inv[p].pc = "write"
    /\ \E ok \in BOOLEAN :
        /\ store' = write_dispenser_record(inv[p].out, ok)
        /\ Set(p, Returned([inv[p] EXCEPT
                !.sent = [kind |-> "request", requestId |-> inv[p].reqId,
                          count |-> 0, color |-> "", response |-> "untouched"],
                !.calls = @ \o <<PutCall(ok), "shadow", "log">>,
                !.logged = "initiated",
                !.resp = "accepted"]))
    /\ UNCHANGED <<now, ledger>>

\* ------------------------------------------------ process_iot_event (reconcile)
\* event["requestId"] in the messages of lines 365 and 374: the f-string is
\* built before log_event is called, so without the key the KeyError is
\* caught at line 377 and nothing reaches the event table.
LogWithEventId(i, message) ==
    IF i.ev.top
    THEN Returned([i EXCEPT !.calls = Append(@, "log"), !.logged = message])
    ELSE Returned(i)

\* a comparison that lets any outcome match
Matches_Any(ev, dr) == TRUE

\* line 294 / 327: the outcome is for the stored request
Matches(ev, dr) == ev.requestId = dr.requestId

\* the deduction forgotten
Debit_Forgotten(record) == record

\* lines 301-303
Debit(record) == [record EXCEPT !.credits = @ - DispenseCost]

\* lines 289-303, 327-333, 356-360, 369-376: the branch taken for the event
\* and the record as read, and the record to write
Reconcile(i, rec) ==
    LET ev == i.ev
        dr == request_details(rec.requests, "dispense")
        removed == remove_request(rec, "dispense")
        j == [i EXCEPT !.loaded = rec.credits]
    IN  IF ~rec.exists
        THEN \* KeyError on ["requests"], caught at line 377
             Returned([i EXCEPT !.branch = "norecord"])
        ELSE IF ~dr.found
        THEN LogWithEventId([j EXCEPT !.branch = "notfound"], "notfound")
        ELSE IF Matches(ev, dr) /\ ev.result = "success"
        THEN [j EXCEPT !.pc = "write", !.branch = "success",
                       !.reqId = dr.requestId, !.out = Debit(removed)]
        ELSE IF Matches(ev, dr) /\ ev.result = "failure"
        THEN [j EXCEPT !.pc = "write", !.branch = "failure",
                       !.reqId = dr.requestId, !.out = removed]
        ELSE [j EXCEPT !.pc = "write", !.branch = "mismatch",
                       !.reqId = dr.requestId, !.out = removed]

\* only a missing response is dropped, a null one is not
Ignored_OnlyMissing(ev) == ev.response = "absent"

\* lines 273-284: state.reported.response is missing (KeyError) or null
Ignored(ev) == ev.response # "present"

\* lines 271-303: an event without a response, or with a null one, is
\* dropped; otherwise the record is read and the branch chosen.
Receive(p, ev) ==
    /\ inv[p].pc = "idle"
    /\ IF Ignored(ev)
       THEN Set(p, [Returned([inv[p] EXCEPT !.kind = "iot", !.branch = "ignored"])
                        EXCEPT !.ev = ev])
       ELSE Set(p, Reconcile([inv[p] EXCEPT !.kind = "iot", !.ev = ev,
                                            !.calls = <<"query">>],
                             read_dispenser))
    /\ UNCHANGED <<store, now>>

IotStart(p, ev) == Receive(p, ev) /\ UNCHANGED ledger

\* the same, with the delivery of a success outcome noted in the ledger
IotStartNoted(p, ev) ==
    /\ Receive(p, ev)
    /\ ledger' = IF ~Ignored(ev) /\ ev.result = "success"
                 THEN [ledger EXCEPT !.successIds = @ \cup {ev.requestId}]
                 ELSE ledger

IotStartCounted(p, ev) == Receive(p, ev) /\ ledger' = Counted

\* the credits as they were read
Balance_Loaded(i) == i.loaded

\* line 306: dispenser_record["credits"], after the deduction of line 301
Balance(i) == i.out.credits

\* lines 306-326 (success): the ring for the new balance and
\* reported.response set to null, then the notification on the events topic;
\* lines 337-355 (failure): desired.request and reported.response set to
\* null, then the event table; lines 362-368 (mismatch): the event table.
Notify(i, ok) ==
    LET led == set_led_ring(Balance(i))
        j == [i EXCEPT !.calls = Append(@, PutCall(ok))]
    IN  CASE i.branch = "success" ->
               Returned([j EXCEPT
                         !.sent = [kind |-> "led_ring", requestId |-> 0,
                                   count |-> led.count, color |-> led.color,
                                   response |-> "null"],
                         !.calls = @ \o <<"shadow", "publish">>])
          [] i.branch = "failure" ->
               Returned([j EXCEPT
                         !.sent = [kind |-> "clear", requestId |-> 0,
                                   count |-> 0, color |-> "", response |-> "null"],
                         !.calls = @ \o <<"shadow", "log">>,
                         !.logged = "failure"])
          [] OTHER -> LogWithEventId(j, "mismatch")

\* lines 304-326, 334-355, 361-368: the record is written, then the shadow,
\* the events topic and the event table are told
Settle(p) ==
    /\ inv[p].kind = "iot" /\ inv[p].pc = "write"
    /\ \E ok \in BOOLEAN :
        /\ store' = write_dispenser_record(inv[p].out, ok)
        /\ Set(p, Notify(inv[p], ok))
    /\ UNCHANGED now

IotWrite(p) == Settle(p) /\ UNCHANGED ledger

\* the same, with a debit that reached the table counted in the ledger (up
\* to MaxCredits, the most the initial credits pay for)
IotWriteNoted(p) ==
    /\ Settle(p)
    /\ ledger' = IF inv[p].branch = "success" /\ inv'[p].calls[2] = "put"
                      /\ ledger.debits < MaxCredits
                 THEN [ledger EXCEPT !.debits = @ + 1]
                 ELSE ledger

\* handler returns: the slot is free for the next invocation
Finish(p) ==
    /\ inv[p].pc = "done"
    /\ Set(p, IdleInv)
    /\ UNCHANGED <<store, now, ledger>>

Next ==
    \/ Tick
    \/ \E p \in Procs : \E params \in ApiParams : ApiStart(p, params)
    \/ \E p \in Procs : ApiWrite(p)
    \/ \E p \in Procs : \E ev \in IotEvents : IotStart(p, ev)
    \/ \E p \in Procs : IotWrite(p)
    \/ \E p \in Procs : Finish(p)

Spec == Init /\ [][Next]_vars

NextLedger ==
    \/ Tick
    \/ \E p \in Procs : \E params \in ApiParams : ApiStart(p, params)
    \/ \E p \in Procs : ApiWrite(p)
    \/ \E p \in Procs : \E ev \in IotEvents : IotStartNoted(p, ev)
    \/ \E p \in Procs : IotWrite(p)
    \/ \E p \in Procs : Finish(p)

SpecLedger == InitLedger /\ [][NextLedger]_vars

NextCalls ==
    \/ Tick
    \/ \E p \in Procs : \E params \in ApiParams : ApiStartCounted(p, params)
    \/ \E p \in Procs : ApiWrite(p)
    \/ \E p \in Procs : \E ev \in IotEvents : IotStartCounted(p, ev)
    \/ \E p \in Procs : IotWrite(p)
    \/ \E p \in Procs : Finish(p)

SpecCalls == InitCalls /\ [][NextCalls]_vars

NextDebits ==
    \/ Tick
    \/ \E p \in Procs : \E params \in ApiParams : ApiStart(p, params)
    \/ \E p \in Procs : ApiWrite(p)
    \/ \E p \in Procs : \E ev \in IotEvents : IotStart(p, ev)
    \/ \E p \in Procs : IotWriteNoted(p)
    \/ \E p \in Procs : Finish(p)

SpecDebits == InitDebits /\ [][NextDebits]_vars

\* --------------------------------------------------- set_led_ring on its own
\* The ledger holds the amount given and, once applied, what came back.
InitRing ==
    /\ store = NoRecord
    /\ now = 0
    /\ inv = [p \in Procs |-> IdleInv]
    /\ ledger \in [amount : 0..MaxAmount, applied : {FALSE}, count : {0}, color : {""}]

ApplyRing ==
    /\ ~ledger.applied
    /\ LET led == set_led_ring(ledger.amount)
       IN  ledger' = [ledger EXCEPT !.applied = TRUE, !.count = led.count,
                                    !.color = led.color]
    /\ UNCHANGED <<store, now, inv>>

SpecRing == InitRing /\ [][ApplyRing]_vars

\* ------------------------------------------------- remove_request on its own
\* Request lists for two commands; the ledger remembers the list given, the
\* list as it was before the last removal, and the command last used.
Commands == {"dispense", "other"}

RequestLists ==
    UNION {[1..n -> {FormatRequest(id, c, 0, "dispenser") :
                        id \in RequestIds, c \in Commands}] : n \in 0..MaxLen}

InitRegistry ==
    /\ store \in {Record(MinCredits, S) : S \in RequestLists}
    /\ now = 0
    /\ inv = [p \in Procs |-> IdleInv]
    /\ ledger = [phase |-> "given", original |-> store.requests,
                 before |-> store.requests, command |-> "none"]

\* lines 216-218, for any command
AppendEntry(c, id) ==
    /\ ledger.phase = "given"
    /\ store' = [store EXCEPT !.requests = Append(@, FormatRequest(id, c, now, "dispenser"))]
    /\ ledger' = [ledger EXCEPT !.phase = "appended", !.command = c]
    /\ UNCHANGED <<now, inv>>

RemoveEntries(c) ==
    /\ ledger.phase \in {"given", "appended"}
    /\ store' = remove_request(store, c)
    /\ ledger' = [ledger EXCEPT
                    !.phase = IF ledger.phase = "appended" /\ ledger.command = c
                              THEN "roundtrip" ELSE "removed",
                    !.before = store.requests,
                    !.command = c]
    /\ UNCHANGED <<now, inv>>

NextRegistry ==
    \/ \E c \in Commands : \E id \in RequestIds : AppendEntry(c, id)
    \/ \E c \in Commands : RemoveEntries(c)

SpecRegistry == InitRegistry /\ [][NextRegistry]_vars

\* ------------------------------------------------------------------ claims
\* the "dispense" entries of a request list
Dispense(requests) == SelectSeq(requests, LAMBDA r : r[2] = "dispense")

\* steps of one invocation
Begins(p) == inv[p].pc = "idle" /\ inv'[p].pc # "idle"
BeginsInitiate(p) == Begins(p) /\ inv'[p].kind = "api" /\ inv'[p].branch # "badparams"
BeginsReconcile(p) ==
    Begins(p) /\ inv'[p].kind = "iot" /\ inv'[p].ev.response \notin {"absent", "null"}
Writes(p) == inv[p].pc = "write" /\ inv'[p].pc = "done"

Stored == request_details(store.requests, "dispense")

Finished(p, kind, branch) ==
    inv[p].pc = "done" /\ inv[p].kind = kind /\ inv[p].branch = branch

\* C1: the stored credits never drop by more than 1.00 per distinct request
\* id that received a success outcome.  (The ids that received a success
\* outcome include those that were also issued, so this bound is implied by
\* the claim's.)
C1_DebitOncePerRequestId ==
    store.exists =>
        ledger.initial - store.credits
            <= DispenseCost * Cardinality(ledger.successIds)

\* C2: the record an invocation computes carries the credits it read, less
\* 1.00 exactly when it is a reconcile whose outcome has the stored
\* request's id and the result success; and the stored record changes only
\* by the write of such a computed record.
C2_CreditsFrame ==
    [][/\ \A p \in Procs :
            (Begins(p) /\ inv'[p].pc = "write") =>
                LET debit == /\ inv'[p].kind = "iot"
                             /\ Stored.found
                             /\ inv'[p].ev.requestId = Stored.requestId
                             /\ inv'[p].ev.result = "success"
                IN  inv'[p].out.credits
                        = store.credits - (IF debit THEN DispenseCost ELSE 0)
       /\ store' # store => \E p \in Procs : Writes(p) /\ store' = inv[p].out
      ]_vars

\* a failure outcome for the stored request was reconciled and the credits
\* stored are the ones read
C2_Witness ==
    \E p \in Procs :
        /\ Finished(p, "iot", "failure")
        /\ inv[p].calls = <<"query", "put", "shadow", "log">>
        /\ store = Record(100, <<>>)

C4_Declined ==
    [][\A p \in Procs :
        (BeginsInitiate(p) /\ store.exists /\ store.credits < 100)
            => /\ inv'[p].pc = "done"
               /\ inv'[p].resp = "declined"
               /\ inv'[p].calls = <<"query", "log">>
               /\ inv'[p].sent = NoSignal
               /\ store' = store]_vars

\* declined with 0.50, and declined with 0.00 after the one credit was spent
C4_Witness ==
    \E p \in Procs :
        /\ Finished(p, "api", "declined")
        /\ store.exists /\ store.credits \in {0, 50} /\ store.requests = <<>>


C6_DebitInOneWrite ==
    [][\A p \in Procs :
        /\ (/\ BeginsReconcile(p) /\ Stored.found
            /\ inv'[p].ev.requestId = Stored.requestId
            /\ inv'[p].ev.result = "success")
           => /\ inv'[p].pc = "write" /\ inv'[p].branch = "success"
              /\ inv'[p].out =
                    [store EXCEPT
                        !.requests = SelectSeq(@, LAMBDA r : r[2] # "dispense"),
                        !.credits = @ - 100]
              /\ store' = store
        /\ (Writes(p) /\ inv[p].branch = "success")
           => /\ store' \in {inv[p].out, store}
              /\ \E ok \in {"put", "put_failed"} :
                    /\ inv'[p].calls = <<"query", ok, "shadow", "publish">>
                    /\ ok = "put" => store' = inv[p].out
      ]_vars

\* 2.00 read with a request outstanding, 1.00 stored with none
C6_Witness ==
    \E p \in Procs :
        /\ Finished(p, "iot", "success")
        /\ inv[p].calls = <<"query", "put", "shadow", "publish">>
        /\ store = Record(100, <<>>)
        /\ inv[p].sent.count = 1

\* C7: the record stored, and every record about to be written, has at most
\* one entry for the command "dispense".
C7_OneDispenseRequest ==
    /\ Len(Dispense(store.requests)) <= 1
    /\ \A p \in Procs : Len(Dispense(inv[p].out.requests)) <= 1

\* a request was written over an earlier one by a second initiate that had
\* read the record before the first wrote it
C7_Witness ==
    /\ Finished("a", "api", "new") /\ Finished("b", "api", "new")
    /\ inv["a"].calls[2] = "put" /\ inv["b"].calls[2] = "put"
    /\ inv["a"].sent.requestId # inv["b"].sent.requestId
    /\ Len(Dispense(store.requests)) = 1

\* C8: a reconcile whose outcome does not have the stored request's id
\* removes the request, writes the record with the credits unchanged and
\* puts a mismatch entry in the event table.
C8_MismatchLogged ==
    [][\A p \in Procs :
        /\ (/\ BeginsReconcile(p) /\ Stored.found
            /\ inv'[p].ev.requestId # Stored.requestId)
           => /\ inv'[p].pc = "write"
              /\ inv'[p].out =
                    [store EXCEPT
                        !.requests = SelectSeq(@, LAMBDA r : r[2] # "dispense")]
        /\ (Writes(p) /\ inv[p].branch = "mismatch")
           => /\ store' \in {inv[p].out, store}
              /\ \E ok \in {"put", "put_failed"} :
                    /\ inv'[p].calls = <<"query", ok, "log">>
                    /\ ok = "put" => store' = inv[p].out
              /\ inv'[p].logged = "mismatch"
      ]_vars

\* C9: a reconcile with an outcome, for a record without a dispense request,
\* puts a "not found" entry in the event table and calls neither put_item
\* nor the shadow nor the events topic.
C9_NotFoundLogged ==
    [][\A p \in Procs :
        (BeginsReconcile(p) /\ store.exists /\ ~Stored.found)
            => /\ inv'[p].pc = "done"
               /\ inv'[p].calls = <<"query", "log">>
               /\ inv'[p].logged = "notfound"
               /\ store' = store
      ]_vars

\* C10: a reconcile whose event has no response, or a null one, calls no
\* collaborator and changes nothing but its own return.
C10_NoOutcomeIgnored ==
    [][\A p \in Procs :
        (Begins(p) /\ inv'[p].ev.response \in {"absent", "null"})
            => /\ inv'[p] = [IdleInv EXCEPT !.pc = "done", !.kind = "iot",
                                            !.branch = "ignored",
                                            !.ev = inv'[p].ev]
               /\ store' = store
               /\ \A q \in Procs \ {p} : inv'[q] = inv[q]
      ]_vars

\* an event with a null response arrived while a request was outstanding
C10_Witness ==
    \E p \in Procs :
        /\ Finished(p, "iot", "ignored")
        /\ inv[p].ev.response = "null"
        /\ inv[p].calls = <<>>
        /\ Stored.found

\* C11: an initiate for a dispenser that has no record answers that the
\* dispenser does not exist, and writes and sends nothing.
C11_NotFound ==
    [][\A p \in Procs :
        (BeginsInitiate(p) /\ ~store.exists)
            => /\ inv'[p].pc = "done"
               /\ inv'[p].resp = "notfound"
               /\ inv'[p].calls = <<"query">>
               /\ inv'[p].sent = NoSignal
               /\ store' = store
      ]_vars

C13_LowIsRed ==
    (ledger.applied /\ ledger.amount <= 24)
        => ledger.count = 8 /\ ledger.color = "#FF0000"

\* C14: remove_request for a command drops every entry of that command and
\* keeps the others in their order, leaving the rest of the record alone;
\* and when an entry for a command is appended to a list that has none for
\* it and remove_request is applied for that command, the list is the one
\* given.
C14_RegistryRoundTrip ==
    ledger.phase \in {"removed", "roundtrip"} =>
        /\ store.requests
              = SelectSeq(ledger.before, LAMBDA r : r[2] # ledger.command)
        /\ store.credits = MinCredits /\ store.exists
        /\ (/\ ledger.phase = "roundtrip"
            /\ \A k \in 1..Len(ledger.original) :
                    ledger.original[k][2] # ledger.command)
           => store.requests = ledger.original

\* two entries of another command, in their order, after a "dispense" entry
\* was appended and removed
C14_Witness ==
    /\ ledger.phase = "roundtrip" /\ ledger.command = "dispense"
    /\ Len(ledger.before) = 3 /\ ledger.before[3][2] = "dispense"
    /\ ledger.original = <<<<2, "other", 0, "dispenser">>, <<1, "other", 0, "dispenser">>>>
    /\ store.requests = ledger.original

\* C15: an invocation whose put_item fails ends there: it makes no further
\* call (no command or signal to the shadow, nothing published), an initiate
\* does not answer that the request was accepted, and the record is as it was.
C15_WriteFailureEnds ==
    [][\A p \in Procs :
        (Writes(p) /\ \E k \in 1..Len(inv'[p].calls) : inv'[p].calls[k] = "put_failed")
            => /\ inv'[p].calls = <<"query", "put_failed">>
               /\ inv'[p].sent = NoSignal
               /\ inv'[p].resp # "accepted"
               /\ store' = store
      ]_vars

\* C16: the write of an initiate replaces the stored record by the one it
\* computed from what it read: that record's only dispense entry is its own
\* request, and its command carries that request's id.  So when two
\* initiates and nothing else have run, the second begun between the read
\* and the write of the first, with no failed write, both were accepted,
\* both sent a command, and one request is stored: the later writer's.
C16_ReadModifyWriteWindow ==
    /\ [][\A p \in Procs :
            (/\ Writes(p) /\ inv[p].kind = "api"
             /\ inv'[p].calls[2] = "put")
                => /\ store' = inv[p].out
                   /\ Len(Dispense(store'.requests)) = 1
                   /\ Dispense(store'.requests)[1][1] = inv[p].reqId
                   /\ inv'[p].sent.kind = "request"
                   /\ inv'[p].sent.requestId = inv[p].reqId]_vars
    /\ []((/\ ledger.begun = 2 /\ ledger.overlapped
            /\ \A p \in Procs :
                  /\ inv[p].pc = "done" /\ inv[p].kind = "api"
                  /\ inv[p].branch # "badparams"
                  /\ \A k \in 1..Len(inv[p].calls) : inv[p].calls[k] # "put_failed")
           => /\ \A p \in Procs :
                    /\ inv[p].resp = "accepted"
                    /\ inv[p].sent.kind = "request"
                    /\ inv[p].calls = <<"query", "put", "shadow", "log">>
              /\ Len(Dispense(store.requests)) = 1
              /\ \E p \in Procs : Stored.requestId = inv[p].sent.requestId)

\* two initiates on an idle record, both read before either wrote: two
\* commands with different ids went out and one request is stored
C16_Witness ==
    /\ ledger.begun = 2 /\ ledger.overlapped
    /\ \A p \in Procs :
          /\ Finished(p, "api", "new")
          /\ inv[p].calls = <<"query", "put", "shadow", "log">>
          /\ inv[p].sent.kind = "request"
    /\ inv["a"].sent.requestId # inv["b"].sent.requestId
    /\ Len(store.requests) = 1
    /\ Stored.requestId \in {inv["a"].sent.requestId, inv["b"].sent.requestId}
    /\ store.credits >= MinCredits

\* C17: a successful put_item replaces the stored record by the one the
\* invocation computed from what it had read, whatever is stored by then:
\* the credits stored are the credits it read, less 1.00 only for a matched
\* success.  The stored credits therefore stay between the initial credits
\* less the debits written and the initial credits, and can be back at the
\* upper end after a debit was written.
C17_LostUpdate ==
    /\ [][\A p \in Procs :
            (Writes(p) /\ inv'[p].calls[2] = "put")
                => /\ store' = inv[p].out
                   /\ store'.credits
                        = inv[p].loaded
                          - (IF inv[p].branch = "success" THEN 100 ELSE 0)]_vars
    /\ [](store.exists =>
            /\ store.credits <= ledger.initial
            /\ store.credits >= ledger.initial - 100 * ledger.debits)

\* one debit was written by the reconcile in slot a; the initiate in slot b,
\* which had read the stale request before that, then wrote its record: the
\* credits are the initial ones again
C17_Witness ==
    /\ ledger.debits = 1
    /\ Finished("a", "iot", "success")
    /\ inv["a"].calls = <<"query", "put", "shadow", "publish">>
    /\ Finished("b", "api", "stale")
    /\ inv["b"].calls = <<"query", "put", "shadow", "log">>
    /\ store.exists /\ store.credits = ledger.initial
    /\ Stored.found /\ Stored.requestId = inv["b"].sent.requestId

\* C18: from an idle record with credits of 0.00 or more, the stored record
\* and every record about to be written have credits of 1.00 or more when
\* they hold a dispense request, and never negative credits.
C18_RequestImpliesCredit ==
    \A rec \in {store} \cup {inv[p].out : p \in Procs} :
        rec.exists =>
            /\ Dispense(rec.requests) # <<>> => rec.credits >= 100
            /\ rec.credits >= 0

\* the last credit was spent: a request stood against 1.00 and its success
\* was reconciled, leaving 0.00
C18_Witness ==
    \E p \in Procs :
        /\ Finished(p, "iot", "success")
        /\ inv[p].calls[2] = "put"
        /\ store = Record(0, <<>>)
        /\ inv[p].sent.count = RingSize

\* C19: the write step of a matched-success reconcile calls put_item first
\* and the shadow after it; the one shadow update sets the LED ring that
\* set_led_ring gives for the credits read less 1.00, which are the credits
\* written, and sets reported.response to null.
C19_SignalForNewBalance ==
    [][\A p \in Procs :
        (Writes(p) /\ inv[p].branch = "success")
            => LET led == set_led_ring(inv[p].loaded - 100)
               IN  /\ inv'[p].sent = [kind |-> "led_ring", requestId |-> 0,
                                      count |-> led.count, color |-> led.color,
                                      response |-> "null"]
                   /\ \E ok \in {"put", "put_failed"} :
                         /\ inv'[p].calls = <<"query", ok, "shadow", "publish">>
                         /\ ok = "put" => store'.credits = inv[p].loaded - 100
      ]_vars

\* 2.00 before, 1.00 written: one LED in the darkest green, response cleared
C19_Witness ==
    \E p \in Procs :
        /\ Finished(p, "iot", "success")
        /\ inv[p].calls = <<"query", "put", "shadow", "publish">>
        /\ store.exists /\ store.credits = 100
        /\ inv[p].sent = [kind |-> "led_ring", requestId |-> 0, count |-> 1,
                          color |-> "#006600", response |-> "null"]

\* C20: a reconcile with an outcome that reads a record with a dispense
\* request computes a record without one, whatever the outcome; unless the
\* outcome is a success for the stored request, that record is the one read
\* with the request removed and nothing else changed, and an outcome with
\* another id or another result is handled by the same branch.  Its
\* successful write stores that record, so the stored record has no dispense
\* request when it returns.  A reconcile that reads a record without a
\* request leaves it as it is.
C20_ReconcileLeavesIdle ==
    [][\A p \in Procs :
        /\ (BeginsReconcile(p) /\ store.exists /\ Stored.found)
           => LET ev == inv'[p].ev
                  matched == ev.requestId = Stored.requestId
              IN  /\ inv'[p].pc = "write"
                  /\ Dispense(inv'[p].out.requests) = <<>>
                  /\ ~(matched /\ ev.result = "success")
                       => inv'[p].out =
                            [store EXCEPT !.requests =
                                SelectSeq(@, LAMBDA r : r[2] # "dispense")]
                  /\ (~matched \/ ev.result = "other")
                       => inv'[p].branch = "mismatch"
        /\ (BeginsReconcile(p) /\ store.exists /\ ~Stored.found)
           => inv'[p].pc = "done" /\ store' = store
        /\ (Writes(p) /\ inv[p].kind = "iot" /\ inv'[p].calls[2] = "put")
           => /\ store' = inv[p].out
              /\ Dispense(store'.requests) = <<>>
      ]_vars

\* an outcome that was not a success or failure for the stored request was
\* reconciled with nothing else running: no request is left and the
\* credits are the 2.00 the record started with
C20_Witness ==
    \E p \in Procs :
        /\ Finished(p, "iot", "mismatch")
        /\ inv[p].calls[2] = "put"
        /\ \A q \in Procs \ {p} : inv[q].pc = "idle"
        /\ store = Record(200, <<>>)

====
